---- MODULE Spec2Model ----
(***************************************************************************)
(* Model of the iwm57/mcp-server gateway.                                  *)
(*                                                                         *)
(*   app/main.py, app/mcp/actual.py, app/http.py  : the FastAPI side, with *)
(*       the direct routes and the generic execute(tool, arguments) entry. *)
(*   mcp_server/server.py, client/actual_bridge.py : the FastMCP tools and *)
(*       the ActualBridgeClient they call.                                 *)
(*                                                                         *)
(* One invocation is in progress at a time (the source keeps no state      *)
(* across invocations).  An invocation runs its handler up to the point    *)
(* where the HTTP request is awaited (or up to an early raise), then the   *)
(* bridge answers, then the handler finishes and the caller takes the      *)
(* result.                                                                 *)
(***************************************************************************)
EXTENDS Integers, Sequences, FiniteSets, TLC

VARIABLES
    pcMain,        \* position of the application start-up (app/main.py)
    ip,            \* next statement of app/mcp/actual.py to execute on import
    router,        \* the object the module-level name `router` is bound to
    routerRoutes,  \* router object -> set of routes registered on it
    appRoutes,     \* routes registered on the FastAPI application
    pc,            \* "idle" | "sent" | "done" : position of the invocation
    conv,          \* calling convention of the invocation
    tool,          \* tool name of the invocation
    arguments,     \* the caller's argument mapping
    reqs,          \* upstream HTTP requests issued by the invocation, in order
    response,      \* what the bridge answered
    result,        \* what the caller gets
    served,        \* number of invocations whose result the caller has taken
    clients,       \* the httpx.AsyncClient objects created so far, in order
    held,          \* the client the running handler holds (0: none)
    ctx            \* "new" | "entered" | "exited" : the handler's `async with`

startVars == <<pcMain, ip, router, routerRoutes, appRoutes>>
invVars == <<pc, conv, tool, arguments, reqs, response, result, served,
             clients, held, ctx>>
vars == <<pcMain, ip, router, routerRoutes, appRoutes,
          pc, conv, tool, arguments, reqs, response, result, served,
          clients, held, ctx>>

\* The number of invocations a run of the model serves.
MaxInvocations == 2

-----------------------------------------------------------------------------
(* Python values.  Every value has the same record shape so that any two   *)
(* values can be compared.  Amounts are in hundredths (-850 is -8.50).     *)

None == [k |-> "none", s |-> "", n |-> 0, l |-> <<>>]
Str(x) == [k |-> "str", s |-> x, n |-> 0, l |-> <<>>]
Num(x) == [k |-> "num", s |-> "", n |-> x, l |-> <<>>]
Bool(b) == [k |-> "bool", s |-> "", n |-> IF b THEN 1 ELSE 0, l |-> <<>>]
List(x) == [k |-> "list", s |-> "", n |-> 0, l |-> x]

\* Python truthiness, as used by `if notes:`.
Truthy(v) ==
    CASE v.k = "none" -> FALSE
      [] v.k = "str" -> v.s # ""
      [] v.k = "num" -> v.n # 0
      [] v.k = "bool" -> v.n = 1
      [] v.k = "list" -> v.l # <<>>

\* `x is not None`
IsNotNone(v) == v.k # "none"

\* The empty mapping {} and mapping helpers.
EmptyMap == [x \in {} |-> None]
Put(m, key, v) == [x \in (DOMAIN m) \cup {key} |-> IF x = key THEN v ELSE m[x]]
\* payload[key] = v  when cond, else payload unchanged
PutIf(cond, m, key, v) == IF cond THEN Put(m, key, v) ELSE m
\* keyword argument with default None
Arg(a, key) == IF key \in DOMAIN a THEN a[key] ELSE None
\* keyword argument with another default
ArgOr(a, key, default) == IF key \in DOMAIN a THEN a[key] ELSE default

-----------------------------------------------------------------------------
(* The callers' inputs: per key, the values a caller may supply: empty-ish  *)
(* values and non-empty ones.                                              *)

Samples(key) ==
    CASE key = "account" -> {Str(""), Str("Checking")}
      [] key = "category" -> {None, Str("Food")}
      [] key = "amount" -> {Num(0), Num(-850)}
      [] key = "date" -> {Str(""), Str("2025-01-19")}
      [] key = "notes" -> {Str(""), Str("coffee")}
      [] key = "payee" -> {None, Str("Savings")}
      [] key = "month" -> {Str(""), Str("2026-01")}
      [] key = "since" -> {Str(""), Str("2026-01-01")}
      [] key = "since_date" -> {Str(""), Str("2026-01-01")}
      [] key = "transaction_id" -> {Str("t1")}
      [] key = "cleared" -> {Bool(FALSE), Bool(TRUE)}
      [] key = "accounts" ->
            {Str(""), Str("Checking"), List(<<>>), List(<<"Checking">>)}
      [] key = "start_date" -> {Str(""), Str("2025-01-01")}
      [] key = "end_date" -> {Str("2025-01-31")}
      [] key = "min_amount" -> {Num(0), Num(-5000)}
      [] key = "max_amount" -> {Num(0)}
      [] key = "search" -> {Str("coffee")}
      [] key = "limit" -> {Num(5)}

\* All mappings that give some of `keys` one of its sample values.
RECURSIVE ArgMaps(_)
ArgMaps(keys) ==
    IF keys = {} THEN {EmptyMap}
    ELSE LET key == CHOOSE x \in keys : TRUE
             rest == ArgMaps(keys \ {key})
         IN  rest \cup {Put(a, key, v) : a \in rest, v \in Samples(key)}

\* The argument names a caller may try for each tool (spec section 4.1,
\* plus the MCP tool's own name for the `since` filter).
ArgKeys(t) ==
    CASE t = "transactions" -> {"since", "since_date"}
      [] t = "monthly_summary" -> {"month"}
      [] t = "add_transaction" ->
            {"account", "category", "amount", "date", "notes", "payee"}
      [] t = "edit_transaction" ->
            {"transaction_id", "amount", "date", "category", "notes",
             "cleared", "account"}
      [] t = "delete_transaction" -> {"transaction_id"}
      [] t = "query_transactions" ->
            {"accounts", "category", "start_date", "end_date", "min_amount",
             "max_amount", "search", "limit"}
      [] OTHER -> {"since"}

-----------------------------------------------------------------------------
(* Upstream requests, bridge responses, results.                           *)

\* `params=None` / no `json=`: nothing is passed.
NoPayload == [absent |-> None]

\* A URL: the path, an optional trailing path segment, and the query string
\* written into the URL itself.
Url(path, seg, query) == [path |-> path, seg |-> seg, query |-> query]

Request(method, url, params, json) ==
    [method |-> method, url |-> url, params |-> params, json |-> json]

\* The bridge's possible answers: a 2xx status with a JSON document of the
\* endpoint's documented shape (two distinct documents), a non-2xx status,
\* no answer within the timeout, or no connection.
HttpResponse(status, body) == [kind |-> "http", status |-> status, body |-> body]
NoResponse == [kind |-> "none", status |-> 0, body |-> "none"]
Responses ==
    {HttpResponse(200, b) : b \in {"json_a", "json_b"}}
    \cup {HttpResponse(s, "error_page") : s \in {404, 503}}
    \cup {[kind |-> "timeout", status |-> 0, body |-> "none"],
          [kind |-> "unreachable", status |-> 0, body |-> "none"]}

\* Exceptions.
NoExc == [type |-> "none", status |-> 0]
Exc(type, status) == [type |-> type, status |-> status]

\* What the caller gets.
NoResult ==
    [kind |-> "none", status |-> 0, detail |-> "", field |-> {},
     cause |-> NoExc, body |-> "none"]
\* the handler returned `body`
Ok(body) ==
    [kind |-> "ok", status |-> 0, detail |-> "", field |-> {},
     cause |-> NoExc, body |-> body]
\* fastapi.HTTPException(status, detail): the structured error of the app
HTTPException(status, detail, field, cause) ==
    [kind |-> "HTTPException", status |-> status, detail |-> detail,
     field |-> field, cause |-> cause, body |-> "none"]
\* any other exception leaves the handler as it was raised
Raised(exc, field) ==
    [kind |-> "raised", status |-> 0, detail |-> "", field |-> field,
     cause |-> exc, body |-> "none"]

\* What a handler does before it first waits: it raises, or it has sent a
\* request.
Raise(res) == [op |-> "raise", result |-> res, req |-> "none"]
Send(req) == [op |-> "send", result |-> NoResult, req |-> req]

-----------------------------------------------------------------------------
(* app/http.py                                                             *)

\* bridge_get up to `await client.get(url, params=params)`
\* httpx.AsyncClient(...): a new client, open, created by invocation `inv`.
AsyncClient(cs, inv) == Append(cs, [owner |-> inv, open |-> TRUE])

\* A handler that leaves its client open.
aclose_skipped(cs, id) == cs

\* client.aclose(), also what leaving `async with httpx.AsyncClient()` does,
\* however the block is left.
aclose(cs, id) == [cs EXCEPT ![id].open = FALSE]

bridge_get(url, params) == Send(Request("GET", url, params, NoPayload))

\* bridge_post up to `await client.post(url, json=payload)`
bridge_post(url, payload) == Send(Request("POST", url, NoPayload, payload))

Is2xx(status) == status >= 200 /\ status <= 299

\* `r.raise_for_status(); return r.json()` once the exchange has ended: the
\* decoded body on 2xx, httpx's own exception otherwise.
raise_for_status_json(r) ==
    CASE r.kind = "http" /\ Is2xx(r.status) -> Ok(r.body)
      [] r.kind = "http" /\ ~Is2xx(r.status) ->
            Raised(Exc("HTTPStatusError", r.status), {})
      [] r.kind = "timeout" -> Raised(Exc("TimeoutException", 0), {})
      [] r.kind = "unreachable" -> Raised(Exc("ConnectError", 0), {})

-----------------------------------------------------------------------------
(* app/mcp/actual.py : the direct routes                                   *)

\* f"{value}" of a str is the str itself; of None it is the text "None".
FString(v) == IF v.k = "none" THEN Str("None") ELSE v

\* The first name of `required` (in order) that is not a key of `a`, or 0.
RECURSIVE FirstMissing(_, _, _)
FirstMissing(required, a, i) ==
    IF i > Len(required) THEN 0
    ELSE IF required[i] \notin DOMAIN a THEN i
    ELSE FirstMissing(required, a, i + 1)

\* FastAPI binds the query parameters a handler declares: a declared
\* parameter without default that is absent is rejected (422) before the
\* handler runs, and undeclared parameters are ignored.
RequestValidation(missing) ==
    Raise(Raised(Exc("RequestValidationError", 422), missing))

capabilities == Raise(Ok("capabilities"))

accounts == bridge_get(Url("/mcp/accounts", None, EmptyMap), NoPayload)

categories == bridge_get(Url("/mcp/categories", None, EmptyMap), NoPayload)

transactions(a) ==
    LET since == Arg(a, "since")
        params == IF Truthy(since)
                  THEN Put(EmptyMap, "since", FString(since))
                  ELSE EmptyMap
    IN  bridge_get(Url("/transactions/recent", None, params), NoPayload)

month_summary(a) ==
    IF "month" \notin DOMAIN a THEN RequestValidation({"month"})
    ELSE IF ~Truthy(a["month"])
    THEN Raise(HTTPException(400, "month required (YYYY-MM)", {"month"}, NoExc))
    ELSE bridge_get(Url("/mcp/summary/month", None,
                        Put(EmptyMap, "month", FString(a["month"]))),
                    NoPayload)

route_add_transaction(payload) ==
    LET required == <<"account", "category", "amount", "date">>
        i == FirstMissing(required, payload, 1)
    IN  IF i # 0
        THEN Raise(HTTPException(400, "Missing field", {required[i]}, NoExc))
        ELSE bridge_post(Url("/mcp/transactions/add", None, EmptyMap), payload)

status == bridge_get(Url("/mcp/status", None, EmptyMap), NoPayload)

-----------------------------------------------------------------------------
(* app/mcp/actual.py : the generic entry point                             *)

TOOLS_read ==
    [t \in {"accounts", "categories", "transactions", "monthly_summary"} |->
        [endpoint |->
            CASE t = "accounts" -> "/mcp/accounts"
              [] t = "categories" -> "/mcp/categories"
              [] t = "transactions" -> "/transactions/recent"
              [] t = "monthly_summary" -> "/mcp/summary/month",
         method |-> "GET"]]

TOOLS_write ==
    [t \in {"add_transaction"} |->
        [endpoint |-> "/mcp/transactions/add", method |-> "POST"]]

\* execute with the final `else` lost: a name that is no read tool is
\* treated as a write tool and posted.
execute_posts_unknown(t, a) ==
    IF t \in DOMAIN TOOLS_read
    THEN bridge_get(Url(TOOLS_read[t].endpoint, None, EmptyMap),
                    IF a # EmptyMap THEN a ELSE EmptyMap)
    ELSE LET required == <<"account", "category", "amount", "date">>
             i == IF t = "add_transaction"
                  THEN FirstMissing(required, a, 1) ELSE 0
         IN  IF i # 0
             THEN Raise(HTTPException(400, "Missing required field",
                                      {required[i]}, NoExc))
             ELSE bridge_post(Url("/mcp/transactions/add", None, EmptyMap), a)

execute(t, a) ==
    IF t \in DOMAIN TOOLS_read
    THEN LET endpoint == TOOLS_read[t].endpoint
             params == IF a # EmptyMap THEN a ELSE EmptyMap
         IN  bridge_get(Url(endpoint, None, EmptyMap), params)
    ELSE IF t \in DOMAIN TOOLS_write
    THEN LET endpoint == TOOLS_write[t].endpoint
             required == <<"account", "category", "amount", "date">>
             i == IF t = "add_transaction"
                  THEN FirstMissing(required, a, 1) ELSE 0
         IN  IF i # 0
             THEN Raise(HTTPException(400, "Missing required field",
                                      {required[i]}, NoExc))
             ELSE bridge_post(Url(endpoint, None, EmptyMap), a)
    ELSE Raise(HTTPException(400, "Unknown tool", {}, NoExc))

\* execute after the exchange: `except Exception as e: raise
\* HTTPException(500, f"Error calling {tool}: {e}")`
execute_finish(r) ==
    LET res == raise_for_status_json(r)
    IN  IF res.kind = "raised"
        THEN HTTPException(500, "Error calling", {}, res.cause)
        ELSE res

-----------------------------------------------------------------------------
(* mcp_server/client/actual_bridge.py                                      *)

RuntimeError == Raise(Raised(Exc("RuntimeError", 0), {}))
AttributeError == Raise(Raised(Exc("AttributeError", 0), {}))

\* __aenter__: self._client = httpx.AsyncClient(...)
aenter == TRUE

\* __aexit__: `if self._client: await self._client.aclose()`; self._client
\* itself is left as it is.
aexit(cs, id) == IF id # 0 THEN aclose(cs, id) ELSE cs

\* get_accounts without its guard: with self._client still None the
\* attribute lookup `self._client.get` fails.
client_get_accounts_unguarded(client) ==
    IF ~client THEN AttributeError
    ELSE Send(Request("GET", Url("/mcp/accounts", None, EmptyMap),
                      NoPayload, NoPayload))

\* Each method takes `client`: whether self._client is set.
client_get_accounts(client) ==
    IF ~client THEN RuntimeError
    ELSE Send(Request("GET", Url("/mcp/accounts", None, EmptyMap),
                      NoPayload, NoPayload))

client_get_categories(client) ==
    IF ~client THEN RuntimeError
    ELSE Send(Request("GET", Url("/mcp/categories", None, EmptyMap),
                      NoPayload, NoPayload))

client_add_transaction(client, account, amount, date, notes, payee, category) ==
    IF ~client THEN RuntimeError
    ELSE LET p0 == Put(Put(Put(EmptyMap, "account", account),
                           "amount", amount), "date", date)
             p1 == PutIf(Truthy(notes), p0, "notes", notes)
             p2 == PutIf(Truthy(payee), p1, "payee", payee)
             payload == PutIf(Truthy(category), p2, "category", category)
         IN  Send(Request("POST", Url("/mcp/transactions/add", None, EmptyMap),
                          NoPayload, payload))

client_edit_transaction(client, transaction_id, amount, date, category, notes, cleared, account) ==
    IF ~client THEN RuntimeError
    ELSE LET p1 == PutIf(IsNotNone(amount), EmptyMap, "amount", amount)
             p2 == PutIf(Truthy(date), p1, "date", date)
             p3 == PutIf(Truthy(category), p2, "category", category)
             p4 == PutIf(IsNotNone(notes), p3, "notes", notes)
             p5 == PutIf(IsNotNone(cleared), p4, "cleared", cleared)
             payload == PutIf(Truthy(account), p5, "account", account)
         IN  Send(Request("PUT",
                          Url("/mcp/transactions/", FString(transaction_id),
                              EmptyMap),
                          NoPayload, payload))

client_delete_transaction(client, transaction_id) ==
    IF ~client THEN RuntimeError
    ELSE Send(Request("DELETE",
                      Url("/mcp/transactions/", FString(transaction_id),
                          EmptyMap),
                      NoPayload, NoPayload))

\* query_transactions normalising `accounts`: a single string is wrapped
\* into a one-element list before it is put into the payload.
client_query_transactions_listed(client, accounts_, category, start_date, end_date, min_amount, max_amount, search, limit) ==
    IF ~client THEN RuntimeError
    ELSE LET listed == IF accounts_.k = "str" /\ accounts_.s # ""
                       THEN List(<<accounts_.s>>) ELSE accounts_
             p0 == Put(EmptyMap, "limit", limit)
             p1 == PutIf(Truthy(accounts_), p0, "accounts", listed)
             p2 == PutIf(Truthy(category), p1, "category", category)
             p3 == PutIf(Truthy(start_date), p2, "start_date", start_date)
             p4 == PutIf(Truthy(end_date), p3, "end_date", end_date)
             p5 == PutIf(IsNotNone(min_amount), p4, "min_amount", min_amount)
             p6 == PutIf(IsNotNone(max_amount), p5, "max_amount", max_amount)
             payload == PutIf(Truthy(search), p6, "search", search)
         IN  Send(Request("POST", Url("/mcp/transactions/query", None, EmptyMap),
                          NoPayload, payload))

\* `accounts_` is the parameter `accounts`.
client_query_transactions(client, accounts_, category, start_date, end_date, min_amount, max_amount, search, limit) ==
    IF ~client THEN RuntimeError
    ELSE LET p0 == Put(EmptyMap, "limit", limit)
             p1 == PutIf(Truthy(accounts_), p0, "accounts", accounts_)
             p2 == PutIf(Truthy(category), p1, "category", category)
             p3 == PutIf(Truthy(start_date), p2, "start_date", start_date)
             p4 == PutIf(Truthy(end_date), p3, "end_date", end_date)
             p5 == PutIf(IsNotNone(min_amount), p4, "min_amount", min_amount)
             p6 == PutIf(IsNotNone(max_amount), p5, "max_amount", max_amount)
             payload == PutIf(Truthy(search), p6, "search", search)
         IN  Send(Request("POST", Url("/mcp/transactions/query", None, EmptyMap),
                          NoPayload, payload))

\* `response.raise_for_status(); return response.json()` of every method
client_response(r) ==
    CASE r.kind = "http" /\ Is2xx(r.status) -> Ok(r.body)
      [] r.kind = "http" /\ ~Is2xx(r.status) ->
            Raised(Exc("HTTPStatusError", r.status), {})
      [] r.kind = "timeout" -> Raised(Exc("TimeoutException", 0), {})
      [] r.kind = "unreachable" -> Raised(Exc("ConnectError", 0), {})

-----------------------------------------------------------------------------
(* mcp_server/server.py : the MCP tools                                    *)

\* The parameters each tool function declares, and those without default.
ToolParams(t) ==
    CASE t = "list_accounts" -> {}
      [] t = "list_categories" -> {}
      [] t = "get_monthly_summary" -> {"month"}
      [] t = "add_transaction" ->
            {"account", "amount", "date", "notes", "payee", "category"}
      [] t = "get_recent_transactions" -> {"since_date"}
      [] t = "edit_transaction" ->
            {"transaction_id", "amount", "date", "category", "notes", "cleared"}
      [] t = "delete_transaction" -> {"transaction_id"}
      [] t = "query_transactions" ->
            {"accounts", "category", "start_date", "end_date", "min_amount",
             "max_amount", "search", "limit"}

ToolRequired(t) ==
    CASE t = "get_monthly_summary" -> {"month"}
      [] t = "add_transaction" -> {"account", "amount", "date"}
      [] t = "edit_transaction" -> {"transaction_id"}
      [] t = "delete_transaction" -> {"transaction_id"}
      [] OTHER -> {}

\* Binding the caller's arguments to the function's parameters.  A missing
\* parameter without default is rejected before the function runs.  An
\* argument the function does not declare is, depending on the FastMCP
\* release, rejected or dropped: both are possible outcomes.
Binding(t, a) ==
    LET missing == ToolRequired(t) \ DOMAIN a
        extra == (DOMAIN a) \ ToolParams(t)
        kept == [x \in (DOMAIN a) \cap ToolParams(t) |-> a[x]]
        reject(names) ==
            [ok |-> FALSE, args |-> EmptyMap,
             error |-> Raised(Exc("ValidationError", 0), names)]
    IN  IF missing # {} THEN {reject(missing)}
        ELSE IF extra # {}
        THEN {reject(extra), [ok |-> TRUE, args |-> kept, error |-> NoResult]}
        ELSE {[ok |-> TRUE, args |-> a, error |-> NoResult]}

list_accounts == client_get_accounts(aenter)

list_categories == client_get_categories(aenter)

\* `await client.get_monthly_summary(month)`: ActualBridgeClient defines no
\* such method, so the attribute lookup raises inside the `async with`.
get_monthly_summary(a) == AttributeError

tool_add_transaction(a) ==
    client_add_transaction(aenter, Arg(a, "account"), Arg(a, "amount"),
                           Arg(a, "date"), Arg(a, "notes"), Arg(a, "payee"),
                           Arg(a, "category"))

\* `await client.get_recent_transactions(since_date)`: no such method either.
get_recent_transactions(a) == AttributeError

\* client.edit_transaction(transaction_id, amount, date, category, notes,
\* cleared): `account` keeps its default
tool_edit_transaction(a) ==
    client_edit_transaction(aenter, Arg(a, "transaction_id"), Arg(a, "amount"),
                            Arg(a, "date"), Arg(a, "category"),
                            Arg(a, "notes"), Arg(a, "cleared"), None)

tool_delete_transaction(a) ==
    client_delete_transaction(aenter, Arg(a, "transaction_id"))

\* every filter defaults to None, `limit: int = 100`
query_transactions(a) ==
    client_query_transactions(aenter, Arg(a, "accounts"), Arg(a, "category"),
                              Arg(a, "start_date"), Arg(a, "end_date"),
                              Arg(a, "min_amount"), Arg(a, "max_amount"),
                              Arg(a, "search"), ArgOr(a, "limit", Num(100)))

-----------------------------------------------------------------------------
(* Start-up: `from app.mcp.actual import router` runs the module body of   *)
(* app/mcp/actual.py statement by statement, then app/main.py includes the *)
(* router it imported.                                                     *)

Route(method, path, handler) ==
    [method |-> method, path |-> path, handler |-> handler]

\* The module-level statements of app/mcp/actual.py that touch `router`.
ActualModule ==
    << [op |-> "APIRouter", obj |-> "router_1", route |-> Route("", "", "")],
       [op |-> "route", obj |-> "", route |-> Route("GET", "/capabilities", "capabilities")],
       [op |-> "route", obj |-> "", route |-> Route("GET", "/accounts", "accounts")],
       [op |-> "route", obj |-> "", route |-> Route("GET", "/categories", "categories")],
       [op |-> "route", obj |-> "", route |-> Route("GET", "/transactions", "transactions")],
       [op |-> "route", obj |-> "", route |-> Route("GET", "/summary/month", "month_summary")],
       [op |-> "route", obj |-> "", route |-> Route("POST", "/transactions/add", "add_transaction")],
       [op |-> "route", obj |-> "", route |-> Route("GET", "/status", "status")],
       [op |-> "APIRouter", obj |-> "router_2", route |-> Route("", "", "")],
       [op |-> "route", obj |-> "", route |-> Route("POST", "/execute", "execute")] >>

RouterObjects == {"router_1", "router_2"}

\* APIRouter(prefix=...)
RouterPrefix(obj) == IF obj = "router_1" THEN "/mcp/actual" ELSE "/mcp"

\* One statement of the module body: `router = APIRouter(...)` binds the
\* name to a new object; `@router.get/post(path)` registers the handler on
\* the object the name is bound to at that point.
ImportStatement ==
    /\ pcMain = "import"
    /\ ip <= Len(ActualModule)
    /\ LET st == ActualModule[ip]
       IN  IF st.op = "APIRouter"
           THEN /\ router' = st.obj
                /\ UNCHANGED routerRoutes
           ELSE /\ routerRoutes' =
                      [routerRoutes EXCEPT ![router] = @ \cup {st.route}]
                /\ UNCHANGED router
    /\ ip' = ip + 1
    /\ pcMain' = IF ip = Len(ActualModule) THEN "include" ELSE "import"
    /\ UNCHANGED <<appRoutes, invVars>>

\* app.include_router(actual_router): the routes of the imported object,
\* each under the object's prefix.
IncludeRouter ==
    /\ pcMain = "include"
    /\ appRoutes' = appRoutes \cup
          {[method |-> r.method, prefix |-> RouterPrefix(router),
            path |-> r.path, handler |-> r.handler] : r \in routerRoutes[router]}
    /\ pcMain' = "health"
    /\ UNCHANGED <<ip, router, routerRoutes, invVars>>

\* @app.get("/health")
RegisterHealth ==
    /\ pcMain = "health"
    /\ appRoutes' = appRoutes \cup
          {[method |-> "GET", prefix |-> "", path |-> "/health",
            handler |-> "health"]}
    /\ pcMain' = "serving"
    /\ UNCHANGED <<ip, router, routerRoutes, invVars>>

-----------------------------------------------------------------------------
(* Invocations.                                                            *)

\* The tool names callers try on the generic entry point: the catalogue of
\* spec section 4.1, the MCP name of the query tool, and a name that is in
\* no catalogue.
ExecuteNames ==
    {"accounts", "categories", "transactions", "monthly_summary",
     "add_transaction", "edit_transaction", "delete_transaction",
     "query_transactions", "find_transactions", "no_such_tool"}

\* The application (or the MCP server) is up and no invocation is running.
Ready == pcMain = "serving" /\ pc = "idle" /\ served < MaxInvocations

\* The argument mappings callers try, per tool name.
ArgSpace == [t \in ExecuteNames |->
                ArgMaps(ArgKeys(t))]

\* Leaving the handler's `async with` block.
Leave(c, cs, id) == IF c = "mcp" THEN aexit(cs, id) ELSE aclose(cs, id)

\* The handler of convention c for tool t is called with arguments a and
\* runs to `step`; `entered` tells whether it got into its `async with`
\* block, where the client is created.  A raise inside the block leaves it.
InvokeIn(c, t, a, step, entered) ==
    /\ conv' = c
    /\ tool' = t
    /\ arguments' = a
    /\ response' = NoResponse
    /\ IF step.op = "send"
       THEN /\ reqs' = <<step.req>>
            /\ result' = NoResult
            /\ pc' = "sent"
       ELSE /\ reqs' = <<>>
            /\ result' = step.result
            /\ pc' = "done"
    /\ IF entered
       THEN LET opened == AsyncClient(clients, served + 1)
            IN  /\ held' = Len(opened)
                /\ clients' = IF step.op = "send" THEN opened
                              ELSE Leave(c, opened, Len(opened))
                /\ ctx' = IF step.op = "send" THEN "entered" ELSE "exited"
       ELSE UNCHANGED <<clients, held, ctx>>
    /\ UNCHANGED <<startVars, served>>

\* The handlers of app/mcp/actual.py: the block is inside bridge_get and
\* bridge_post, so it is entered exactly when one of them is called.
Invoke(c, t, a, step) == InvokeIn(c, t, a, step, step.op = "send")

\* POST /mcp/execute
Execute ==
    /\ Ready
    /\ \E t \in ExecuteNames : \E a \in ArgSpace[t] :
           Invoke("execute", t, a, execute(t, a))

\* The direct routes of the first router.
RouteCapabilities ==
    /\ Ready
    /\ Invoke("direct", "capabilities", EmptyMap, capabilities)

RouteAccounts ==
    /\ Ready
    /\ \E a \in ArgSpace["accounts"] : Invoke("direct", "accounts", a, accounts)

RouteCategories ==
    /\ Ready
    /\ \E a \in ArgSpace["categories"] :
           Invoke("direct", "categories", a, categories)

RouteTransactions ==
    /\ Ready
    /\ \E a \in ArgSpace["transactions"] :
           Invoke("direct", "transactions", a, transactions(a))

RouteMonthSummary ==
    /\ Ready
    /\ \E a \in ArgSpace["monthly_summary"] :
           Invoke("direct", "monthly_summary", a, month_summary(a))

RouteAddTransaction ==
    /\ Ready
    /\ \E a \in ArgSpace["add_transaction"] :
           Invoke("direct", "add_transaction", a, route_add_transaction(a))

RouteStatus ==
    /\ Ready
    /\ Invoke("direct", "status", EmptyMap, status)

\* An MCP tool: bind the arguments to the function t, then run its body.
\* `spec` is the catalogue name of the tool.
\* The body of every tool is one `async with ActualBridgeClient()` block.
ToolCall(spec, t, a, b, step) ==
    InvokeIn("mcp", spec, a, IF b.ok THEN step ELSE Raise(b.error), b.ok)

ToolListAccounts ==
    /\ Ready
    /\ \E a \in ArgSpace["accounts"] : \E b \in Binding("list_accounts", a) :
           ToolCall("accounts", "list_accounts", a, b, list_accounts)

ToolListCategories ==
    /\ Ready
    /\ \E a \in ArgSpace["categories"] :
         \E b \in Binding("list_categories", a) :
           ToolCall("categories", "list_categories", a, b, list_categories)

ToolGetMonthlySummary ==
    /\ Ready
    /\ \E a \in ArgSpace["monthly_summary"] :
         \E b \in Binding("get_monthly_summary", a) :
           ToolCall("monthly_summary", "get_monthly_summary", a, b,
                    get_monthly_summary(b.args))

ToolAddTransaction ==
    /\ Ready
    /\ \E a \in ArgSpace["add_transaction"] :
         \E b \in Binding("add_transaction", a) :
           ToolCall("add_transaction", "add_transaction", a, b,
                    tool_add_transaction(b.args))

ToolGetRecentTransactions ==
    /\ Ready
    /\ \E a \in ArgSpace["transactions"] :
         \E b \in Binding("get_recent_transactions", a) :
           ToolCall("transactions", "get_recent_transactions", a, b,
                    get_recent_transactions(b.args))

ToolEditTransaction ==
    /\ Ready
    /\ \E a \in ArgSpace["edit_transaction"] :
         \E b \in Binding("edit_transaction", a) :
           ToolCall("edit_transaction", "edit_transaction", a, b,
                    tool_edit_transaction(b.args))

ToolDeleteTransaction ==
    /\ Ready
    /\ \E a \in ArgSpace["delete_transaction"] :
         \E b \in Binding("delete_transaction", a) :
           ToolCall("delete_transaction", "delete_transaction", a, b,
                    tool_delete_transaction(b.args))

ToolQueryTransactions ==
    /\ Ready
    /\ \E a \in ArgSpace["query_transactions"] :
         \E b \in Binding("query_transactions", a) :
           ToolCall("query_transactions", "query_transactions", a, b,
                    query_transactions(b.args))

\* The rest of the handler once the exchange has ended.  The direct routes
\* and the MCP tools let whatever the HTTP client raised pass; execute
\* wraps it.
Finish(c, r) ==
    CASE c = "execute" -> execute_finish(r)
      [] c = "direct" -> raise_for_status_json(r)
      [] c = "mcp" -> client_response(r)

\* A handler that sends the request once more when the exchange failed.
BridgeRespondsRetry ==
    /\ pc = "sent"
    /\ \E r \in Responses :
        /\ response' = r
        /\ IF Finish(conv, r).kind # "ok" /\ Len(reqs) < 2
           THEN /\ reqs' = Append(reqs, reqs[1])
                /\ result' = result
                /\ pc' = "sent"
                /\ clients' = clients
                /\ ctx' = ctx
           ELSE /\ reqs' = reqs
                /\ result' = Finish(conv, r)
                /\ pc' = "done"
                /\ clients' = Leave(conv, clients, held)
                /\ ctx' = "exited"
    /\ UNCHANGED <<startVars, conv, tool, arguments, served, held>>

\* The bridge answers (or the request times out, or the bridge cannot be
\* reached) and the handler finishes.
BridgeResponds ==
    /\ pc = "sent"
    /\ \E r \in Responses :
        /\ response' = r
        /\ result' = Finish(conv, r)
    /\ clients' = Leave(conv, clients, held)
    /\ ctx' = "exited"
    /\ pc' = "done"
    /\ UNCHANGED <<startVars, conv, tool, arguments, reqs, served, held>>

\* The caller takes the result; the handler's frame, with its client
\* variable, is gone.
Return ==
    /\ pc = "done"
    /\ pc' = "idle"
    /\ conv' = "none"
    /\ tool' = "none"
    /\ arguments' = EmptyMap
    /\ reqs' = <<>>
    /\ response' = NoResponse
    /\ result' = NoResult
    /\ served' = served + 1
    /\ held' = 0
    /\ ctx' = "new"
    /\ UNCHANGED <<startVars, clients>>

-----------------------------------------------------------------------------

Init ==
    /\ pcMain = "import"
    /\ ip = 1
    /\ router = "unbound"
    /\ routerRoutes = [o \in RouterObjects |-> {}]
    /\ appRoutes = {}
    /\ pc = "idle"
    /\ conv = "none"
    /\ tool = "none"
    /\ arguments = EmptyMap
    /\ reqs = <<>>
    /\ response = NoResponse
    /\ result = NoResult
    /\ served = 0
    /\ clients = <<>>
    /\ held = 0
    /\ ctx = "new"

Next ==
    \/ ImportStatement
    \/ IncludeRouter
    \/ RegisterHealth
    \/ Execute
    \/ RouteCapabilities
    \/ RouteAccounts
    \/ RouteCategories
    \/ RouteTransactions
    \/ RouteMonthSummary
    \/ RouteAddTransaction
    \/ RouteStatus
    \/ ToolListAccounts
    \/ ToolListCategories
    \/ ToolGetMonthlySummary
    \/ ToolAddTransaction
    \/ ToolGetRecentTransactions
    \/ ToolEditTransaction
    \/ ToolDeleteTransaction
    \/ ToolQueryTransactions
    \/ BridgeResponds
    \/ Return

Spec == Init /\ [][Next]_vars

-----------------------------------------------------------------------------
(* One ActualBridgeClient object driven by an arbitrary caller: __aenter__, *)
(* __aexit__ and the request methods in any order.  `held` is the object's  *)
(* self._client, `ctx` the last of __aenter__ / __aexit__ that ran, `tool`  *)
(* the method called by the last operation, if it was a method call, and    *)
(* `served` the number of operations so far.                                *)

\* The number of operations the caller performs on the object.
MaxClientOps == 4

ClientMethods ==
    {"get_accounts", "get_categories", "add_transaction", "edit_transaction",
     "delete_transaction", "query_transactions"}

\* The arguments the caller passes to each method.
ClientArgs(m) ==
    CASE m = "add_transaction" ->
            {a \in ArgSpace["add_transaction"] :
                {"account", "amount", "date"} \subseteq DOMAIN a
                /\ DOMAIN a \subseteq {"account", "amount", "date", "notes"}}
      [] m = "edit_transaction" ->
            {a \in ArgSpace["edit_transaction"] :
                DOMAIN a \subseteq {"transaction_id", "notes"}
                /\ "transaction_id" \in DOMAIN a}
      [] m = "delete_transaction" ->
            {a \in ArgSpace["delete_transaction"] : "transaction_id" \in DOMAIN a}
      [] m = "query_transactions" ->
            {a \in ArgSpace["query_transactions"] :
                DOMAIN a \subseteq {"accounts", "limit"}}
      [] OTHER -> {EmptyMap}

\* The method m of the object, self._client being set or not.
ClientMethod(m, client, a) ==
    CASE m = "get_accounts" -> client_get_accounts(client)
      [] m = "get_categories" -> client_get_categories(client)
      [] m = "add_transaction" ->
            client_add_transaction(client, Arg(a, "account"), Arg(a, "amount"),
                                   Arg(a, "date"), Arg(a, "notes"),
                                   Arg(a, "payee"), Arg(a, "category"))
      [] m = "edit_transaction" ->
            client_edit_transaction(client, Arg(a, "transaction_id"),
                                    Arg(a, "amount"), Arg(a, "date"),
                                    Arg(a, "category"), Arg(a, "notes"),
                                    Arg(a, "cleared"), Arg(a, "account"))
      [] m = "delete_transaction" ->
            client_delete_transaction(client, Arg(a, "transaction_id"))
      [] m = "query_transactions" ->
            client_query_transactions(client, Arg(a, "accounts"),
                                      Arg(a, "category"), Arg(a, "start_date"),
                                      Arg(a, "end_date"), Arg(a, "min_amount"),
                                      Arg(a, "max_amount"), Arg(a, "search"),
                                      ArgOr(a, "limit", Num(100)))

\* `await self._client.get/post/put/delete(...)`: an httpx client that has
\* been closed refuses to send ("RuntimeError: Cannot send a request, as the
\* client has been closed."); an open one sends.
httpx_send(cs, id, step) == IF cs[id].open THEN step ELSE RuntimeError

ClientReady == pcMain = "client" /\ pc # "sent" /\ served < MaxClientOps

\* The operation is no method call.
NoCall ==
    /\ pc' = "idle"
    /\ tool' = "none"
    /\ arguments' = EmptyMap
    /\ reqs' = <<>>
    /\ response' = NoResponse
    /\ result' = NoResult

\* __aenter__: self._client is bound to a new client; one it was bound to
\* before is not closed.
ClientEnter ==
    /\ ClientReady
    /\ clients' = AsyncClient(clients, 0)
    /\ held' = Len(clients) + 1
    /\ ctx' = "entered"
    /\ served' = served + 1
    /\ NoCall
    /\ UNCHANGED <<startVars, conv>>

\* __aexit__
ClientExit ==
    /\ ClientReady
    /\ clients' = aexit(clients, held)
    /\ ctx' = "exited"
    /\ served' = served + 1
    /\ NoCall
    /\ UNCHANGED <<startVars, conv, held>>

\* A request method is called and runs to its await, or raises.
ClientCall ==
    /\ ClientReady
    /\ \E m \in ClientMethods : \E a \in ClientArgs(m) :
          LET guarded == ClientMethod(m, held # 0, a)
              step == IF guarded.op = "send"
                      THEN httpx_send(clients, held, guarded) ELSE guarded
          IN  /\ tool' = m
              /\ arguments' = a
              /\ response' = NoResponse
              /\ IF step.op = "send"
                 THEN /\ reqs' = <<step.req>>
                      /\ result' = NoResult
                      /\ pc' = "sent"
                 ELSE /\ reqs' = <<>>
                      /\ result' = step.result
                      /\ pc' = "done"
    /\ served' = served + 1
    /\ UNCHANGED <<startVars, conv, clients, held, ctx>>

\* The bridge answers the method's request and the method returns or raises.
ClientResponds ==
    /\ pcMain = "client"
    /\ pc = "sent"
    /\ \E r \in Responses :
        /\ response' = r
        /\ result' = client_response(r)
    /\ pc' = "done"
    /\ UNCHANGED <<startVars, conv, tool, arguments, reqs, served, clients,
                   held, ctx>>

\* ActualBridgeClient(): __init__ leaves self._client = None.
InitClient ==
    /\ pcMain = "client"
    /\ ip = 1
    /\ router = "unbound"
    /\ routerRoutes = [o \in RouterObjects |-> {}]
    /\ appRoutes = {}
    /\ pc = "idle"
    /\ conv = "client"
    /\ tool = "none"
    /\ arguments = EmptyMap
    /\ reqs = <<>>
    /\ response = NoResponse
    /\ result = NoResult
    /\ served = 0
    /\ clients = <<>>
    /\ held = 0
    /\ ctx = "new"

NextClient ==
    \/ ClientEnter
    \/ ClientExit
    \/ ClientCall
    \/ ClientResponds

SpecClient == InitClient /\ [][NextClient]_vars

-----------------------------------------------------------------------------
(* Vocabulary of the claims.                                               *)

\* The keys of the registry.
RegistryNames == (DOMAIN TOOLS_read) \cup (DOMAIN TOOLS_write)

Conventions == {"execute", "direct", "mcp"}

\* An invocation has been made and its handler has run.
Invoked == pc \in {"sent", "done"}

\* The structured client error for an unknown tool name.
IsUnknownTool(res) ==
    res.kind = "HTTPException" /\ res.status = 400 /\ res.detail = "Unknown tool"

\* The structured client error for a missing argument.
IsMissingArgument(res) ==
    /\ res.kind = "HTTPException"
    /\ res.status = 400
    /\ res.detail \in {"Missing required field", "Missing field",
                       "month required (YYYY-MM)"}

\* A rejection before the handler body, by the framework binding the
\* arguments.
IsBindingError(res) ==
    res.kind = "raised"
    /\ res.cause.type \in {"ValidationError", "RequestValidationError"}

\* The caller supplied `key` with a value that is neither absent nor empty.
\* A number (0 included) and a boolean (false included) are values.
NonEmpty(v) == v.k # "none" /\ v # Str("") /\ v # List(<<>>)
Supplied(a, key) == key \in DOMAIN a /\ NonEmpty(a[key])

\* The bridge answered with a non-2xx status / with a 2xx status.
Non2xx(r) == r.kind = "http" /\ ~Is2xx(r.status)
Success(r) == r.kind = "http" /\ Is2xx(r.status)
\* Any upstream failure: non-2xx, timeout, unreachable.
UpstreamFailed(r) == r.kind \in {"timeout", "unreachable"} \/ Non2xx(r)

\* The query an upstream request carries: the mapping given as `params=`,
\* or else the one written into the URL.
EffectiveQuery(req) == IF req.params # NoPayload THEN req.params ELSE req.url.query

-----------------------------------------------------------------------------
(* C1 *)

\* C1: on the generic execute entry point, a tool name that is not a key of
\* the registry ends the invocation with the UnknownTool client error
\* (HTTP 400) and no upstream request, whatever the arguments.
C1_UnknownToolNoUpstream ==
    (conv = "execute" /\ Invoked /\ tool \notin RegistryNames) =>
        /\ pc = "done"
        /\ IsUnknownTool(result)
        /\ reqs = <<>>

\* An unknown tool called with a non-empty argument mapping was refused.
C1_Witness ==
    /\ conv = "execute"
    /\ pc = "done"
    /\ tool = "edit_transaction"
    /\ "transaction_id" \in DOMAIN arguments
    /\ "amount" \in DOMAIN arguments
    /\ IsUnknownTool(result)
    /\ reqs = <<>>

-----------------------------------------------------------------------------
(* C2 *)

\* C2: execute("add_transaction", a) with a lacking one of account, amount,
\* date fails with MissingArgument naming the first missing of these, in
\* that order, and sends nothing; with all three present no MissingArgument
\* is raised.
C2_AddTransactionRequired ==
    (conv = "execute" /\ Invoked /\ tool = "add_transaction") =>
        LET schema == <<"account", "amount", "date">>
            i == FirstMissing(schema, arguments, 1)
        IN  IF i # 0
            THEN /\ pc = "done"
                 /\ IsMissingArgument(result)
                 /\ result.field = {schema[i]}
                 /\ reqs = <<>>
            ELSE ~IsMissingArgument(result)

-----------------------------------------------------------------------------
(* C3 *)

\* C3: under every calling convention, monthly_summary without `month` is
\* refused for the missing month and no upstream request is attempted.
C3_MonthValidatedPreFlight ==
    (Invoked /\ tool = "monthly_summary" /\ "month" \notin DOMAIN arguments) =>
        /\ pc = "done"
        /\ reqs = <<>>
        /\ IsMissingArgument(result) \/ IsBindingError(result)
        /\ result.field = {"month"}

-----------------------------------------------------------------------------
(* C4 *)

\* C4: when add_transaction is invoked with account, amount and date, the
\* request is a POST to /mcp/transactions/add whose body has exactly the
\* keys account, amount, date and those of payee, category, notes that the
\* caller supplied with a non-empty value.
C4_AddTransactionBody ==
    (Invoked /\ tool = "add_transaction" /\ Len(reqs) = 1
       /\ {"account", "amount", "date"} \subseteq DOMAIN arguments) =>
        /\ reqs[1].method = "POST"
        /\ reqs[1].url.path = "/mcp/transactions/add"
        /\ DOMAIN reqs[1].json =
              {"account", "amount", "date"}
              \cup {key \in {"payee", "category", "notes"} :
                        Supplied(arguments, key)}

-----------------------------------------------------------------------------
(* C5 *)

\* C5: under every calling convention, a non-2xx answer of the bridge ends
\* the invocation with a structured 5xx error that carries the bridge's
\* status; httpx's exception does not reach the caller as raised.
C5_UpstreamErrorTyped ==
    (pc = "done" /\ Non2xx(response)) =>
        /\ result.kind = "HTTPException"
        /\ result.status >= 500 /\ result.status <= 599
        /\ result.cause = Exc("HTTPStatusError", response.status)

-----------------------------------------------------------------------------
(* C6 *)

\* C6: under every calling convention, monthly_summary with a month issues
\* GET /mcp/summary/month with that month as the query, and on a 2xx answer
\* the caller gets exactly the decoded body.
C6_MonthlySummaryPassThrough ==
    (Invoked /\ tool = "monthly_summary" /\ Supplied(arguments, "month")) =>
        /\ Len(reqs) = 1
        /\ reqs[1].method = "GET"
        /\ reqs[1].url.path = "/mcp/summary/month"
        /\ EffectiveQuery(reqs[1]) = Put(EmptyMap, "month", arguments["month"])
        /\ (pc = "done" /\ Success(response)) => result = Ok(response.body)

-----------------------------------------------------------------------------
(* C7 *)

\* C7: an invocation issues at most one upstream request, and once the
\* exchange has failed (non-2xx, timeout, unreachable) the invocation is
\* over, with an error and with that one request only.
C7_NothingIsRetried ==
    /\ Len(reqs) <= 1
    /\ UpstreamFailed(response) =>
          /\ pc = "done"
          /\ Len(reqs) = 1
          /\ result.kind \in {"HTTPException", "raised"}

\* A POST of add_transaction failed with 503 and was not posted again.
C7_Witness ==
    /\ pc = "done"
    /\ tool = "add_transaction"
    /\ response = HttpResponse(503, "error_page")
    /\ Len(reqs) = 1
    /\ reqs[1].method = "POST"
    /\ result.kind \in {"HTTPException", "raised"}

-----------------------------------------------------------------------------
(* C8 *)

\* C8: once the application serves, every route declared in app/mcp/actual.py
\* (on either router object, under that object's prefix) is registered on
\* the application.
C8_AllRoutesServed ==
    pcMain = "serving" =>
        \A o \in RouterObjects : \A r \in routerRoutes[o] :
            [method |-> r.method, prefix |-> RouterPrefix(o),
             path |-> r.path, handler |-> r.handler] \in appRoutes

-----------------------------------------------------------------------------
(* C9 *)

\* What the handler of convention c does with add_transaction(a).
AddTransactionStep(c, a) ==
    CASE c = "execute" -> execute("add_transaction", a)
      [] c = "direct" -> route_add_transaction(a)
      [] c = "mcp" ->
            LET b == CHOOSE x \in Binding("add_transaction", a) : TRUE
            IN  IF b.ok THEN tool_add_transaction(b.args) ELSE Raise(b.error)

\* C9: for the same arguments, add_transaction is accepted under one
\* calling convention exactly when it is accepted under every other (the
\* same set of required arguments), and then the same request is built.
C9_SameUnderEveryConvention ==
    (Invoked /\ tool = "add_transaction") =>
        \A c \in Conventions :
            LET here == AddTransactionStep(conv, arguments)
                there == AddTransactionStep(c, arguments)
            IN  /\ (here.op = "send") <=> (there.op = "send")
                /\ (here.op = "send" /\ there.op = "send") =>
                       here.req = there.req

-----------------------------------------------------------------------------
(* C10 *)

EditOptional == {"amount", "date", "category", "notes", "cleared", "account"}

\* C10: the PUT body of edit_transaction has exactly those optional fields
\* the caller supplied with a non-empty value, each with the caller's
\* value.
C10_EditTransactionBody ==
    (Invoked /\ tool = "edit_transaction" /\ Len(reqs) = 1) =>
        /\ reqs[1].method = "PUT"
        /\ reqs[1].url.path = "/mcp/transactions/"
        /\ reqs[1].url.seg = arguments["transaction_id"]
        /\ DOMAIN reqs[1].json =
              {key \in EditOptional : Supplied(arguments, key)}
        /\ \A key \in DOMAIN reqs[1].json : reqs[1].json[key] = arguments[key]

-----------------------------------------------------------------------------
(* C11 *)

\* The optional filters of the transactions tools (`since` of the recent
\* listing, the parameters of query_transactions).
FilterNames ==
    {"since", "accounts", "category", "start_date", "end_date", "min_amount",
     "max_amount", "search", "limit"}

\* What an upstream request carries: its JSON body if it has one, else its
\* query.
Carried(req) == IF req.json # NoPayload THEN req.json ELSE EffectiveQuery(req)

\* C11: the upstream request of a transactions read tool carries every
\* filter the caller supplied with a non-empty value, under its own name and
\* with the caller's value; carries no filter whose value is absent or
\* empty; and carries limit = 100 when the caller did not set limit.
C11_FiltersVerbatim ==
    (Invoked /\ tool \in {"transactions", "query_transactions"}
             /\ Len(reqs) = 1) =>
        LET carried == Carried(reqs[1])
        IN  /\ \A key \in FilterNames :
                   Supplied(arguments, key) =>
                       key \in DOMAIN carried /\ carried[key] = arguments[key]
            /\ \A key \in (DOMAIN carried) \ {"limit"} :
                   Supplied(arguments, key)
            /\ ("limit" \notin DOMAIN arguments) =>
                   ("limit" \in DOMAIN carried /\ carried["limit"] = Num(100))

-----------------------------------------------------------------------------
(* C12 *)

\* A single account: a non-empty string, or a list of one non-empty string.
IsSingle(v) ==
    \/ v.k = "str" /\ v.s # ""
    \/ v.k = "list" /\ Len(v.l) = 1 /\ v.l[1] # ""

\* The same account in the other shape.
OtherShape(v) == IF v.k = "str" THEN List(<<v.s>>) ELSE Str(v.l[1])

\* What the MCP tool query_transactions does with arguments a.
QueryTransactionsStep(a) ==
    LET b == CHOOSE x \in Binding("query_transactions", a) : TRUE
    IN  IF b.ok THEN query_transactions(b.args) ELSE Raise(b.error)

\* C12: query_transactions called with accounts = s and with accounts = [s],
\* all other arguments equal, sends two requests with the same method, path
\* and payload keys, equal in every payload field but accounts, and each
\* carries accounts exactly as the caller gave it.
C12_AccountsEitherShape ==
    (Invoked /\ conv = "mcp" /\ tool = "query_transactions"
             /\ "accounts" \in DOMAIN arguments
             /\ IsSingle(arguments["accounts"])) =>
        LET other == [arguments EXCEPT !["accounts"] = OtherShape(@)]
            there == QueryTransactionsStep(other)
        IN  /\ Len(reqs) = 1
            /\ there.op = "send"
            /\ there.req.method = reqs[1].method
            /\ there.req.url = reqs[1].url
            /\ there.req.params = reqs[1].params
            /\ DOMAIN there.req.json = DOMAIN reqs[1].json
            /\ \A key \in (DOMAIN reqs[1].json) \ {"accounts"} :
                   there.req.json[key] = reqs[1].json[key]
            /\ reqs[1].json["accounts"] = arguments["accounts"]
            /\ there.req.json["accounts"] = other["accounts"]
            /\ there.req.json["accounts"] # reqs[1].json["accounts"]

\* A query with accounts as a single string and another filter was sent
\* and answered.
C12_Witness ==
    /\ conv = "mcp" /\ tool = "query_transactions" /\ pc = "done"
    /\ Success(response)
    /\ Len(reqs) = 1
    /\ Supplied(arguments, "category")
    /\ "accounts" \in DOMAIN arguments
    /\ arguments["accounts"] = Str("Checking")
    /\ reqs[1].json["accounts"] = Str("Checking")

-----------------------------------------------------------------------------
(* C13 *)

\* C13: while a request is in flight the handler holds a client that is
\* open and was created by this very invocation; no client is open at any
\* other time, so after the invocation has ended (with a result or with
\* any error) the client it created is closed; and no two invocations have
\* the same client.
C13_ClientPerInvocation ==
    /\ pc = "sent" =>
           /\ held \in 1..Len(clients)
           /\ clients[held].open
           /\ clients[held].owner = served + 1
    /\ Len(reqs) > 0 =>
           (held \in 1..Len(clients) /\ clients[held].owner = served + 1)
    /\ \A i \in 1..Len(clients) :
           clients[i].open => (pc = "sent" /\ i = held)
    /\ \A i, j \in 1..Len(clients) :
           i # j => clients[i].owner # clients[j].owner

\* The second invocation's request timed out, after a first invocation
\* that had a client of its own; both clients are closed.
C13_Witness ==
    /\ pc = "done" /\ served = 1
    /\ Len(reqs) = 1
    /\ response.kind = "timeout"
    /\ Len(clients) = 2
    /\ held = 2
    /\ clients[1].owner = 1 /\ ~clients[1].open
    /\ clients[2].owner = 2 /\ ~clients[2].open

-----------------------------------------------------------------------------
(* C14 *)

\* C14: a request method called on an ActualBridgeClient that is not inside
\* its async context (never entered, or exited since it was last entered)
\* raises RuntimeError and sends no HTTP request.
C14_OutsideContextRaises ==
    (conv = "client" /\ tool \in ClientMethods /\ ctx # "entered") =>
        /\ pc = "done"
        /\ reqs = <<>>
        /\ result.kind = "raised"
        /\ result.cause.type = "RuntimeError"

\* A method was called after enter and exit, and refused; before that, a
\* client had been created and closed.
C14_Witness ==
    /\ conv = "client" /\ tool = "delete_transaction"
    /\ ctx = "exited"
    /\ held # 0 /\ ~clients[held].open
    /\ pc = "done" /\ reqs = <<>>
    /\ result.cause.type = "RuntimeError"

====
